---- MODULE Spec2Model ----
(***************************************************************************)
(* Model of the analysis-and-reporting pipeline of the BigData repository: *)
(*   analyzer.py    DataAnalyzer (column classification, describe tables,   *)
(*                  correlation matrix, value counts)                       *)
(*   visualizer.py  the chart catalogue, _safe_filename, the HTML report    *)
(*   ai_insights.py the narrative provider (generate_insights)              *)
(*   main.py        run_analysis, which drives the three                    *)
(*                                                                         *)
(* Text is modelled character by character: a string is a sequence of      *)
(* one-character strings.  A path is a record [parent, name]: parent is     *)
(* the sequence of directory components (pathlib's Path.parent), name the   *)
(* final component (Path.name) as a character sequence.                     *)
(***************************************************************************)
EXTENDS Integers, Sequences, FiniteSets, TLC

VARIABLES
    df,                \* the dataset: a sequence of columns [name, dtype, values]
    numeric_cols,      \* DataAnalyzer.numeric_cols  (sequence of column names)
    categorical_cols,  \* DataAnalyzer.categorical_cols
    HAS_PLOT,          \* visualizer.HAS_PLOT: the plotting library was imported
    no_plots,          \* run_analysis argument no_plots
    fs,                \* the set of paths that exist on disk
    generated,         \* the list returned by generate_all_plots
    saved,             \* history of plt.savefig calls: [kind, cols, path]
    report,            \* rel_paths written into rapor.html, or NoReport
    pc,                \* position of the run
    call,              \* the last direct call of an operation: [op, ..., ret]
    use_ai,            \* run_analysis argument use_ai
    HAS_AI,            \* main.HAS_AI: ai_insights was imported
    provider,          \* what the openai library and its service will do
    fault,             \* the number of the plt.savefig call that raises (0: none)
    ai_insight_text,   \* run_analysis: ai_insight_text
    prompt,            \* the prompt sent to the service, or None
    ai_section,        \* the narrative section written into rapor.html, or None
    printed            \* the error notices run_analysis has printed

envvars == <<use_ai, HAS_AI, provider, fault>>
aivars == <<ai_insight_text, prompt, ai_section, printed>>

vars == <<df, numeric_cols, categorical_cols, HAS_PLOT, no_plots, fs,
          generated, saved, report, pc, call, envvars, aivars>>

----------------------------------------------------------------------------
(* Bounds of the model.                                                    *)

MaxNameLen == 3
MaxWideCols == 7
MaxDeepCols == 3
MaxRows == 2
MaxLen == 3
MaxTopN == 2
MaxRefs == 3

----------------------------------------------------------------------------
(* Characters and strings.                                                 *)

Lower == {"a","b","c","d","e","f","g","h","i","j","k","l","m","n","o","p",
          "q","r","s","t","u","v","w","x","y","z"}
Upper == {"S","U","D"}
Digits == {"0","1"}
\* "é" stands for the non-ASCII letters and digits str.isalnum() accepts.
NonAscii == {"é"}

\* str.isalnum() of one character.
isalnum(c) == c \in Lower \cup Upper \cup Digits \cup NonAscii

safe_filename_dropping(name) ==
    SelectSeq(name, LAMBDA c : isalnum(c) \/ c \in {".", "_", "-"})

\* visualizer._safe_filename
safe_filename(name) ==
    [i \in 1..Len(name) |->
        IF isalnum(name[i]) \/ name[i] \in {".", "_", "-"} THEN name[i] ELSE "_"]

SalesUSD == <<"S","a","l","e","s"," ","(","U","S","D",")","!">>
Sales__USD__ == <<"S","a","l","e","s","_","_","U","S","D","_","_">>

NameAlphabet == {"a", "1", "é", ".", "_", "-", " ", "(", "!"}

RECURSIVE SeqsUpTo(_, _)
SeqsUpTo(S, n) ==
    IF n = 0 THEN {<<>>}
    ELSE LET shorter == SeqsUpTo(S, n - 1)
         IN  shorter \cup {Append(s, x) : s \in {t \in shorter : Len(t) = n - 1}, x \in S}

NameInputs == SeqsUpTo(NameAlphabet, MaxNameLen) \cup {SalesUSD}

NoReport == <<"no report">>
NoCall == [op |-> "none"]

----------------------------------------------------------------------------
(* The dataset (a pandas DataFrame): a sequence of columns                  *)
(* [name, dtype, values, categories].  A cell is NA (missing) or <<v>>;    *)
(* categories are the declared categories of a column of dtype category     *)
(* (they include every value of the column) and <<>> for any other dtype.  *)

NA == <<>>
None == <<>>          \* Python's None as an empty option; a value x is <<x>>

AllDtypes == {"int64", "float64", "bool", "datetime64", "object", "category"}

\* np.number, as select_dtypes(include=[np.number]) reads it
NumberDtypes == {"int64", "float64"}
\* include=["object", "category"]
ObjectDtypes == {"object", "category"}

\* pd.api.types.is_numeric_dtype: numbers and booleans
is_numeric_dtype(col) == col.dtype \in {"int64", "float64", "bool"}

\* df.columns
columns(d) == [i \in 1..Len(d) |-> d[i].name]

Range(s) == {s[i] : i \in 1..Len(s)}

\* df[column], for a column of the dataset
Col(d, column) == d[CHOOSE i \in 1..Len(d) : d[i].name = column]

\* len(df)
RowCount(d) == IF Len(d) = 0 THEN 0 ELSE Len(d[1].values)

\* df.select_dtypes(include=...).columns.tolist()
select_dtypes(d, include) == columns(SelectSeq(d, LAMBDA c : c.dtype \in include))

\* Series.dropna()
dropna(values) == SelectSeq(values, LAMBDA v : v # NA)

\* Series.isnull().sum()
isnull_sum(values) == Len(values) - Len(dropna(values))

head_off_by_one(s, n) == SubSeq(s, 1, IF n + 1 < Len(s) THEN n + 1 ELSE Len(s))

\* seq[:n] and Series.head(n), for n >= 0
head(s, n) == SubSeq(s, 1, IF n < Len(s) THEN n ELSE Len(s))

\* The hash-table pass of Series.value_counts(): distinct non-missing values in
\* first-encountered order, each with its running count.
RECURSIVE tally(_, _)
tally(values, acc) ==
    IF values = <<>> THEN acc
    ELSE LET v == Head(values)
             hit == {i \in 1..Len(acc) : <<acc[i].value>> = v}
         IN  IF v = NA THEN tally(Tail(values), acc)
             ELSE IF hit = {} THEN
                 tally(Tail(values), Append(acc, [value |-> v[1], count |-> 1]))
             ELSE
                 tally(Tail(values),
                       [i \in 1..Len(acc) |->
                           IF i \in hit THEN [acc[i] EXCEPT !.count = @ + 1] ELSE acc[i]])

\* Stable insertion of e into a list sorted by non-increasing count.
RECURSIVE insert_desc(_, _)
insert_desc(sorted, e) ==
    IF sorted = <<>> THEN <<e>>
    ELSE IF Head(sorted).count >= e.count
         THEN <<Head(sorted)>> \o insert_desc(Tail(sorted), e)
         ELSE <<e>> \o sorted

RECURSIVE sort_desc(_, _)
sort_desc(todo, sorted) ==
    IF todo = <<>> THEN sorted
    ELSE sort_desc(Tail(todo), insert_desc(sorted, Head(todo)))

\* The counts before sorting.  For a column of dtype category every declared
\* category has an entry, an unused one with count 0.
counts_of(col) ==
    LET seen == tally(col.values, <<>>)
        unused == SelectSeq(col.categories,
                            LAMBDA c : \A i \in 1..Len(seen) : seen[i].value # c)
    IN  seen \o [i \in 1..Len(unused) |-> [value |-> unused[i], count |-> 0]]

value_counts_unsorted(col) == counts_of(col)

\* Series.value_counts(): missing values dropped, descending by count
value_counts(col) == sort_desc(counts_of(col), <<>>)

\* Series.nunique(): the number of distinct non-missing values
nunique(col) == Len(tally(col.values, <<>>))

\* DataFrame.isnull().sum() restricted to the columns with a positive count
missing_columns(d) ==
    columns(SelectSeq(d, LAMBDA c : isnull_sum(c.values) > 0))

\* number of rows in which both columns are present: len(df[[x, y]].dropna())
complete_pairs(d, x, y) ==
    Cardinality({r \in 1..RowCount(d) :
                    Col(d, x).values[r] # NA /\ Col(d, y).values[r] # NA})

----------------------------------------------------------------------------
(* analyzer.py: DataAnalyzer.                                              *)

EmptyFrame == [index |-> <<>>, columns |-> <<>>, data |-> <<>>]

DescribeIndex == <<"count", "mean", "std", "min", "25%", "50%", "75%", "max">>

\* DataAnalyzer.describe_numeric; of the statistics only the counts are kept
describe_numeric ==
    IF numeric_cols = <<>> THEN EmptyFrame
    ELSE [index |-> DescribeIndex,
          columns |-> numeric_cols,
          data |-> [i \in 1..Len(numeric_cols) |->
                       [count |-> Len(dropna(Col(df, numeric_cols[i]).values))]]]

\* Series.mode().iloc[0]: the smallest of the most frequent values
mode_first(col) ==
    LET vc == value_counts(col)
        top == {vc[i].value : i \in {j \in 1..Len(vc) : vc[j].count = vc[1].count}}
    IN  CHOOSE v \in top : \A w \in top : v <= w

describe_categorical_row(col) ==
    [sutun |-> col,
     benzersiz_sayi |-> nunique(Col(df, col)),
     en_sik |-> IF Len(dropna(Col(df, col).values)) > 0
                THEN <<mode_first(Col(df, col))>> ELSE None,
     eksik_sayi |-> isnull_sum(Col(df, col).values)]

\* DataAnalyzer.describe_categorical
describe_categorical ==
    IF categorical_cols = <<>> THEN EmptyFrame
    ELSE [index |-> [i \in 1..Len(categorical_cols) |-> i - 1],
          columns |-> <<"sutun", "benzersiz_sayi", "en_sik", "eksik_sayi">>,
          data |-> [i \in 1..Len(categorical_cols) |->
                       describe_categorical_row(categorical_cols[i])]]

correlation_matrix_always ==
    [index |-> numeric_cols, columns |-> numeric_cols, data |-> <<>>]

\* DataAnalyzer.correlation_matrix; a cell keeps the number of pairwise-complete
\* rows the coefficient is computed from, not the coefficient
correlation_matrix ==
    IF Len(numeric_cols) < 2 THEN EmptyFrame
    ELSE [index |-> numeric_cols,
          columns |-> numeric_cols,
          data |-> [i \in 1..Len(numeric_cols) |->
                      [j \in 1..Len(numeric_cols) |->
                          complete_pairs(df, numeric_cols[i], numeric_cols[j])]]]

value_counts_summary_unsorted(column, top_n) ==
    IF column \notin Range(columns(df))
    THEN [raised |-> "ValueError"]
    ELSE [raised |-> "", ret |-> head(value_counts_unsorted(Col(df, column)), top_n)]

value_counts_summary_lenient(column, top_n) ==
    IF column \notin Range(columns(df))
    THEN [raised |-> "", ret |-> <<>>]
    ELSE [raised |-> "", ret |-> head(value_counts(Col(df, column)), top_n)]

\* DataAnalyzer.value_counts_summary
value_counts_summary(column, top_n) ==
    IF column \notin Range(columns(df))
    THEN [raised |-> "ValueError"]
    ELSE [raised |-> "", ret |-> head(value_counts(Col(df, column)), top_n)]

\* DataAnalyzer.summary: a dict, modelled as a function of its keys.  The
\* amount of memory is not modelled, only that its key is there.  The keys
\* are written without their diacritics (satir_sayisi is the source's
\* Turkish key for the row count, and so on).
SummaryKeys == {"satir_sayisi", "sutun_sayisi", "sutunlar", "sayisal_sutunlar",
                "kategorik_sutunlar", "eksik_degerler", "bellek_kullanimi_mb"}

summary ==
    [k \in SummaryKeys |->
        CASE k = "satir_sayisi" -> RowCount(df)
          [] k = "sutun_sayisi" -> Len(df)
          [] k = "sutunlar" -> columns(df)
          [] k = "sayisal_sutunlar" -> numeric_cols
          [] k = "kategorik_sutunlar" -> categorical_cols
          [] k = "eksik_degerler" ->
                 [c \in Range(columns(df)) |-> isnull_sum(Col(df, c).values)]
          [] OTHER -> "MB"]

----------------------------------------------------------------------------
(* ai_insights.py: the narrative provider.  The variable provider says what *)
(* the openai library and its service do in this run:                      *)
(*   library  "missing" (import openai fails) or "present"                  *)
(*   api_key  the value of OPENAI_API_KEY ("" when unset)                   *)
(*   client   "ok" or "raises": what OpenAI(api_key=...) does               *)
(*   request  "ok" or "raises": what chat.completions.create does           *)
(*   choices  the number of choices of the response                        *)
(*   content  choices[0].message.content: None or <<text>>                  *)

Whitespace == {" ", "\n"}

RECURSIVE lstrip(_)
lstrip(text) ==
    IF text # <<>> /\ Head(text) \in Whitespace THEN lstrip(Tail(text)) ELSE text

RECURSIVE rstrip(_)
rstrip(text) ==
    IF text # <<>> /\ text[Len(text)] \in Whitespace
    THEN rstrip(SubSeq(text, 1, Len(text) - 1)) ELSE text

\* str.strip()
strip(text) == rstrip(lstrip(text))

\* dict.get(key, default)
get(d, key, default) == IF key \in DOMAIN d THEN d[key] ELSE default

\* _get_openai_client: ImportError is the only exception it catches
get_openai_client ==
    IF provider.library = "missing" THEN [raised |-> "", ret |-> None]
    ELSE IF strip(provider.api_key) = <<>> THEN [raised |-> "", ret |-> None]
    ELSE IF provider.client = "raises" THEN [raised |-> "OpenAIError", ret |-> None]
    ELSE [raised |-> "", ret |-> <<"client">>]

\* generate_insights: the fields of the prompt (lines 38-56)
insight_prompt(summary_dict, describe_text, correlation_text) ==
    [row_count |-> get(summary_dict, "row_count", "?"),
     column_count |-> get(summary_dict, "column_count", "?"),
     numeric_columns |-> get(summary_dict, "numeric_columns", <<>>),
     categorical_columns |-> get(summary_dict, "categorical_columns", <<>>),
     missing_values |-> get(summary_dict, "missing_values", <<>>),
     describe_text |-> describe_text,
     correlation_text |-> correlation_text]

\* generate_insights: [raised, ret, prompt]; prompt is what was built, if
\* the function got that far
generate_insights(summary_dict, describe_text, correlation_text) ==
    LET client == get_openai_client
        built == <<insight_prompt(summary_dict, describe_text, correlation_text)>>
        text == provider.content
    IN  IF client.raised # ""
        THEN [raised |-> client.raised, ret |-> None, prompt |-> None]
        ELSE IF client.ret = None
        THEN [raised |-> "", ret |-> None, prompt |-> None]
        ELSE IF provider.request = "raises" \/ provider.choices = 0
        THEN [raised |-> "", ret |-> None, prompt |-> built]
        ELSE [raised |-> "",
              ret |-> IF text # None /\ text[1] # <<>> THEN <<strip(text[1])>> ELSE None,
              prompt |-> built]

----------------------------------------------------------------------------
(* visualizer.py: file names, the single charts, the catalogue, the report. *)

S_korelasyon_haritasi_png == <<"k","o","r","e","l","a","s","y","o","n","_","h","a","r","i","t","a","s","i",".","p","n","g">>
S_dashboard_ozet_png == <<"d","a","s","h","b","o","a","r","d","_","o","z","e","t",".","p","n","g">>
S_eksik_degerler_png == <<"e","k","s","i","k","_","d","e","g","e","r","l","e","r",".","p","n","g">>
S_dagilim_ == <<"d","a","g","i","l","i","m","_">>
S_kutu_ == <<"k","u","t","u","_">>
S_deger_sayilari_ == <<"d","e","g","e","r","_","s","a","y","i","l","a","r","i","_">>
S_scatter_ == <<"s","c","a","t","t","e","r","_">>
S__vs_ == <<"_","v","s","_">>
S_png == <<".","p","n","g">>
S_rapor_html == <<"r","a","p","o","r",".","h","t","m","l">>
S_veri_ornegi_csv == <<"v","e","r","i","_","o","r","n","e","g","i","_","i","l","k","_","1","0","0","0","0",".","c","s","v">>

\* run_analysis(..., output_dir="output")
OutputDir == <<"output">>

\* out / filename
Join(out, filename) == [parent |-> out, name |-> filename]

\* what one chart function does when it renders: plt.savefig(filepath) and
\* return str(filepath)
Render(kind, cols, out, filename) ==
    <<[kind |-> kind, cols |-> cols, path |-> Join(out, filename)]>>

\* plot_correlation_heatmap
plot_correlation_heatmap(d, out) ==
    IF ~HAS_PLOT THEN None
    ELSE IF Len(select_dtypes(d, NumberDtypes)) < 2 THEN None
    ELSE Render("heatmap", <<>>, out, S_korelasyon_haritasi_png)

\* plot_distribution
plot_distribution(d, column, out) ==
    IF ~HAS_PLOT \/ column \notin Range(columns(d)) THEN None
    ELSE IF ~is_numeric_dtype(Col(d, column)) THEN None
    ELSE IF dropna(Col(d, column).values) = <<>> THEN None
    ELSE Render("distribution", <<column>>, out,
                S_dagilim_ \o safe_filename(column) \o S_png)

\* plot_value_counts
plot_value_counts(d, column, top_n, out) ==
    IF ~HAS_PLOT \/ column \notin Range(columns(d)) THEN None
    ELSE IF head(value_counts(Col(d, column)), top_n) = <<>> THEN None
    ELSE Render("value_counts", <<column>>, out,
                S_deger_sayilari_ \o safe_filename(column) \o S_png)

plot_scatter_three_pairs(d, col_x, col_y, out) ==
    IF ~HAS_PLOT \/ col_x \notin Range(columns(d)) \/ col_y \notin Range(columns(d))
    THEN None
    ELSE IF ~is_numeric_dtype(Col(d, col_x)) \/ ~is_numeric_dtype(Col(d, col_y))
    THEN None
    ELSE IF complete_pairs(d, col_x, col_y) <= 2 THEN None
    ELSE Render("scatter", <<col_x, col_y>>, out,
                S_scatter_ \o safe_filename(col_x) \o S__vs_ \o safe_filename(col_y)
                    \o S_png)

\* plot_scatter
plot_scatter(d, col_x, col_y, out) ==
    IF ~HAS_PLOT \/ col_x \notin Range(columns(d)) \/ col_y \notin Range(columns(d))
    THEN None
    ELSE IF ~is_numeric_dtype(Col(d, col_x)) \/ ~is_numeric_dtype(Col(d, col_y))
    THEN None
    ELSE IF complete_pairs(d, col_x, col_y) < 2 THEN None
    ELSE Render("scatter", <<col_x, col_y>>, out,
                S_scatter_ \o safe_filename(col_x) \o S__vs_ \o safe_filename(col_y)
                    \o S_png)

plot_box_named_as_distribution(d, column, out) ==
    IF ~HAS_PLOT \/ column \notin Range(columns(d)) THEN None
    ELSE IF ~is_numeric_dtype(Col(d, column)) THEN None
    ELSE IF dropna(Col(d, column).values) = <<>> THEN None
    ELSE Render("box", <<column>>, out, S_dagilim_ \o safe_filename(column) \o S_png)

\* plot_box
plot_box(d, column, out) ==
    IF ~HAS_PLOT \/ column \notin Range(columns(d)) THEN None
    ELSE IF ~is_numeric_dtype(Col(d, column)) THEN None
    ELSE IF dropna(Col(d, column).values) = <<>> THEN None
    ELSE Render("box", <<column>>, out, S_kutu_ \o safe_filename(column) \o S_png)

plot_missing_values_always(d, out) ==
    IF ~HAS_PLOT THEN None
    ELSE Render("missing", <<>>, out, S_eksik_degerler_png)

\* plot_missing_values
plot_missing_values(d, out) ==
    IF ~HAS_PLOT THEN None
    ELSE IF missing_columns(d) = <<>> THEN None
    ELSE Render("missing", <<>>, out, S_eksik_degerler_png)

\* plot_dashboard
plot_dashboard(d, numeric, out) ==
    IF ~HAS_PLOT THEN None
    ELSE Render("dashboard", <<>>, out, S_dashboard_ozet_png)

\* numeric_cols[:6]
DistBoxLimit == 6
\* (categorical_cols + numeric_cols)[:5]
ValueCountsLimit == 5
\* plot_value_counts(df, col, top_n=15, ...)
CatalogueTopN == 15

RECURSIVE Flatten(_)
Flatten(ss) == IF ss = <<>> THEN <<>> ELSE Head(ss) \o Flatten(Tail(ss))

\* generate_all_plots: the charts rendered, in order; the list it returns is
\* their paths
all_plots(d, numeric, categorical, out) ==
    (IF Len(numeric) >= 2
     THEN plot_correlation_heatmap(d, out)
          \o plot_dashboard(d, numeric, out)
          \o plot_scatter(d, numeric[1], numeric[2], out)
     ELSE <<>>)
    \o Flatten([i \in 1..Len(head(numeric, DistBoxLimit)) |->
                   plot_distribution(d, numeric[i], out) \o plot_box(d, numeric[i], out)])
    \o Flatten([i \in 1..Len(head(categorical \o numeric, ValueCountsLimit)) |->
                   plot_value_counts(d, (categorical \o numeric)[i], CatalogueTopN, out)])
    \o plot_missing_values(d, out)

Paths(renders) == [i \in 1..Len(renders) |-> renders[i].path]

rel_paths_unfiltered(disk, out, plot_files) ==
    [i \in 1..Len(plot_files) |-> plot_files[i].name]

rel_paths_outside(disk, out, plot_files) ==
    LET existing == SelectSeq(plot_files, LAMBDA p : p \in disk)
        outside == SelectSeq(existing, LAMBDA p : p.parent # out)
    IN  [i \in 1..Len(outside) |-> outside[i].name]

S_br == <<"<", "b", "r", ">">>

\* str.replace(chr(10), "<br>")
RECURSIVE replace_newlines(_)
replace_newlines(text) ==
    IF text = <<>> THEN <<>>
    ELSE (IF Head(text) = "\n" THEN S_br ELSE <<Head(text)>>)
         \o replace_newlines(Tail(text))

\* generate_html_report: ai_block, the text of the narrative section, None
\* when the section is left out
ai_block(ai_insight) ==
    IF ai_insight # None /\ ai_insight[1] # <<>>
    THEN <<replace_newlines(ai_insight[1])>>
    ELSE None

\* generate_html_report: rel_paths, the names of the image entries
rel_paths(disk, out, plot_files) ==
    LET existing == SelectSeq(plot_files, LAMBDA p : p \in disk)
        inside == SelectSeq(existing, LAMBDA p : p.parent = out)
    IN  [i \in 1..Len(inside) |-> inside[i].name]

----------------------------------------------------------------------------
(* Input datasets.  A dataset is built from its column names, its column    *)
(* dtypes and its rows; a row is a pattern saying which cells are missing.  *)
(* An int64 or bool column cannot hold a missing value (pandas stores such  *)
(* a column as float64 or object), so its cells are always present.          *)

RowPatterns == {"full", "odd", "none"}

Missing(pattern, i) ==
    \/ pattern = "none"
    \/ pattern = "odd" /\ i % 2 = 1

CanHoldNA(dtype) == dtype \notin {"int64", "bool"}

MkDataset(colnames, dtypes, rows) ==
    [i \in 1..Len(dtypes) |->
        [name |-> colnames[i],
         dtype |-> dtypes[i],
         values |-> [r \in 1..Len(rows) |->
                        IF Missing(rows[r], i) /\ CanHoldNA(dtypes[i]) THEN NA ELSE <<r>>],
         categories |-> IF dtypes[i] = "category"
                        THEN [r \in 1..Len(rows) |-> r] ELSE <<>>]]

PlainNames == <<<<"a">>, <<"b">>, <<"c">>, <<"d">>, <<"e">>, <<"f">>, <<"g">>, <<"h">>, <<"i">>, <<"j">>>>
ClashNames == <<<<"a"," ","b">>, <<"a","_","b">>, <<"a",".","b">>, <<"a","(","b">>, <<"a","!","b">>, <<"a","b">>>>
NamePools == {PlainNames, ClashNames}

RunDtypes == {"float64", "object", "bool"}
DeepDtypes == {"float64", "object", "bool", "category"}

\* The dtypes and rows of the datasets with n columns.  A dataset without rows
\* (a file holding only its header line) has object columns only.
Shapes(n, dtypes, rowsets) ==
    {x \in [1..n -> dtypes] \X rowsets :
        x[2] = <<>> => \A i \in 1..n : x[1][i] = "object"}

\* <<>> and the row lists of the full length
NoneOrFull(len) == {<<>>} \cup {r \in SeqsUpTo(RowPatterns, len) : Len(r) = len}

\* d is a dataset of at most maxcols columns named from pool, with dtypes
\* from dtypes and rows from rowsets
DatasetOf(d, pool, maxcols, dtypes, rowsets) ==
    \E n \in 0..maxcols :
        \E x \in Shapes(n, dtypes, rowsets) : d = MkDataset(pool, x[1], x[2])

\* many columns, few row shapes
WideRows == {<<>>, <<"full", "full", "odd">>, <<"odd", "odd">>}
WideDataset(d) == DatasetOf(d, PlainNames, MaxWideCols, RunDtypes, WideRows)

\* few columns, every row shape, plain or clashing names
DeepDataset(d) ==
    \E pool \in NamePools :
        DatasetOf(d, pool, MaxDeepCols, DeepDtypes, NoneOrFull(MaxRows))

\* one column of free values
ValueDataset(d) ==
    \E dt \in {"float64", "object", "category"} :
        \E vs \in SeqsUpTo({NA, <<1>>, <<2>>, <<3>>}, MaxLen) :
            d = <<[name |-> PlainNames[1], dtype |-> dt, values |-> vs,
                   categories |-> IF dt = "category" THEN <<1, 2, 3>> ELSE <<>>]>>

\* files found in the output directory before the run
OldPng == Join(OutputDir, <<"o","l","d",".","p","n","g">>)
NotesTxt == Join(OutputDir, <<"n","o","t","e","s",".","t","x","t">>)
PriorContents == {{}, {OldPng, NotesTxt}, {Join(OutputDir, S_eksik_degerler_png)}}

Idle ==
    /\ numeric_cols = <<>>
    /\ categorical_cols = <<>>
    /\ generated = <<>>
    /\ saved = <<>>
    /\ report = NoReport
    /\ call = NoCall
    /\ ai_insight_text = None
    /\ prompt = None
    /\ ai_section = None
    /\ printed = <<>>

\* the narrative is not asked for and no render fails
NoProvider ==
    [library |-> "missing", api_key |-> <<>>, client |-> "ok", request |-> "ok",
     choices |-> 0, content |-> None]

Plain ==
    /\ use_ai = FALSE
    /\ HAS_AI = TRUE
    /\ provider = NoProvider
    /\ fault = 0

----------------------------------------------------------------------------
(* Specification Spec: main.run_analysis on a loaded dataset.              *)

Init ==
    /\ \/ /\ WideDataset(df)
          /\ fs = {}
          /\ HAS_PLOT = TRUE
          /\ no_plots = FALSE
       \/ /\ DeepDataset(df)
          /\ fs \in PriorContents
          /\ HAS_PLOT = TRUE
          /\ no_plots = FALSE
       \/ /\ DeepDataset(df)
          /\ fs = {}
          /\ \E flags \in {<<FALSE, FALSE>>, <<TRUE, TRUE>>} :
                /\ HAS_PLOT = flags[1]
                /\ no_plots = flags[2]
    /\ Idle
    /\ Plain
    /\ pc = "loaded"

\* DataAnalyzer.__init__
DataAnalyzer ==
    /\ pc = "loaded"
    /\ numeric_cols' = select_dtypes(df, NumberDtypes)
    /\ categorical_cols' = select_dtypes(df, ObjectDtypes)
    /\ pc' = "analyzed"
    /\ UNCHANGED <<df, HAS_PLOT, no_plots, fs, generated, saved, report, call>>
    /\ UNCHANGED <<envvars, aivars>>

\* run_analysis: the narrative step is over, or is skipped (line 87)
AtCharts == pc = "narrated" \/ (pc = "analyzed" /\ ~(use_ai /\ HAS_AI))

GrafikHatasi == "Grafik olusturma hatasi"

\* run_analysis: generated = generate_all_plots(analyzer, output_path=output_dir)
\* inside the try of lines 105-114.  When a plt.savefig raises, the renders
\* before it are on disk, generate_all_plots does not return (generated keeps
\* its []), generate_html_report is not reached and the notice is printed.
GenerateAllPlots ==
    /\ AtCharts
    /\ HAS_PLOT /\ ~no_plots
    /\ LET renders == all_plots(df, numeric_cols, categorical_cols, OutputDir)
           failed == fault \in 1..Len(renders)
           done == IF failed THEN SubSeq(renders, 1, fault - 1) ELSE renders
       IN  /\ saved' = done
           /\ generated' = IF failed THEN generated ELSE Paths(renders)
           /\ fs' = fs \cup Range(Paths(done))
           /\ printed' = IF failed THEN Append(printed, GrafikHatasi) ELSE printed
           /\ pc' = IF failed THEN "charted" ELSE "plotted"
    /\ UNCHANGED <<df, numeric_cols, categorical_cols, HAS_PLOT, no_plots, report, call>>
    /\ UNCHANGED <<envvars, ai_insight_text, prompt, ai_section>>

\* run_analysis: generate_html_report(output_dir, generated, ...)
GenerateHtmlReport ==
    /\ pc = "plotted"
    /\ report' = rel_paths(fs, OutputDir, generated)
    /\ ai_section' = ai_block(ai_insight_text)
    /\ fs' = fs \cup {Join(OutputDir, S_rapor_html)}
    /\ pc' = "charted"
    /\ UNCHANGED <<df, numeric_cols, categorical_cols, HAS_PLOT, no_plots,
                   generated, saved, call>>
    /\ UNCHANGED <<envvars, ai_insight_text, prompt, printed>>

\* run_analysis: the plotting library is missing, or --no-plots
SkipPlots ==
    /\ AtCharts
    /\ ~(HAS_PLOT /\ ~no_plots)
    /\ pc' = "charted"
    /\ UNCHANGED <<df, numeric_cols, categorical_cols, HAS_PLOT, no_plots, fs,
                   generated, saved, report, call>>
    /\ UNCHANGED <<envvars, aivars>>

\* run_analysis: sample.to_csv(sample_file)
WriteSample ==
    /\ pc = "charted"
    /\ fs' = fs \cup {Join(OutputDir, S_veri_ornegi_csv)}
    /\ pc' = "done"
    /\ UNCHANGED <<df, numeric_cols, categorical_cols, HAS_PLOT, no_plots,
                   generated, saved, report, call>>
    /\ UNCHANGED <<envvars, aivars>>

Next ==
    \/ DataAnalyzer
    \/ GenerateAllPlots
    \/ GenerateHtmlReport
    \/ SkipPlots
    \/ WriteSample

Spec == Init /\ [][Next]_vars

----------------------------------------------------------------------------
(* Properties of the run.                                                  *)

\* the catalogue has run
Plotted == pc \in {"plotted", "charted", "done"} /\ HAS_PLOT /\ ~no_plots
\* the report has been written
Reported == pc \in {"charted", "done"} /\ HAS_PLOT /\ ~no_plots

IndexOf(s, x) == CHOOSE i \in 1..Len(s) : s[i] = x

KindRank(kind) ==
    CASE kind = "heatmap" -> 1
      [] kind = "dashboard" -> 2
      [] kind = "scatter" -> 3
      [] kind \in {"distribution", "box"} -> 4
      [] kind = "value_counts" -> 5
      [] kind = "missing" -> 6

OfKind(kinds) == {i \in 1..Len(saved) : saved[i].kind \in kinds}

CatThenNum == categorical_cols \o numeric_cols

\* C2: the list returned by generate_all_plots is ordered heatmap, dashboard,
\* scatter of the first two numeric columns (only with >= 2 numeric columns),
\* then distribution followed by box for each of the first 6 numeric columns in
\* column order, then value counts for the first 5 columns of categorical
\* followed by numeric, then the missing-values bar; so it holds at most 1, 1, 1,
\* 12, 5 and 1 artifacts of these kinds, and the report lists them in this order.
C2_CatalogueOrder ==
    Plotted =>
        /\ generated = Paths(saved)
        /\ \A i, j \in 1..Len(saved) :
              i < j => KindRank(saved[i].kind) <= KindRank(saved[j].kind)
        /\ OfKind({"heatmap", "dashboard", "scatter"}) # {} => Len(numeric_cols) >= 2
        /\ \A i \in OfKind({"scatter"}) : saved[i].cols = <<numeric_cols[1], numeric_cols[2]>>
        /\ \A i \in OfKind({"distribution", "box"}) :
              /\ saved[i].cols[1] \in Range(numeric_cols)
              /\ IndexOf(numeric_cols, saved[i].cols[1]) <= 6
        /\ \A i, j \in OfKind({"distribution", "box"}) :
              i < j =>
                 \/ IndexOf(numeric_cols, saved[i].cols[1])
                       < IndexOf(numeric_cols, saved[j].cols[1])
                 \/ /\ saved[i].cols = saved[j].cols
                    /\ saved[i].kind = "distribution"
                    /\ saved[j].kind = "box"
        /\ \A i \in OfKind({"value_counts"}) :
              /\ saved[i].cols[1] \in Range(CatThenNum)
              /\ IndexOf(CatThenNum, saved[i].cols[1]) <= 5
        /\ \A i, j \in OfKind({"value_counts"}) :
              i < j => IndexOf(CatThenNum, saved[i].cols[1])
                          < IndexOf(CatThenNum, saved[j].cols[1])
        /\ Cardinality(OfKind({"heatmap"})) <= 1
        /\ Cardinality(OfKind({"dashboard"})) <= 1
        /\ Cardinality(OfKind({"scatter"})) <= 1
        /\ Cardinality(OfKind({"distribution", "box"})) <= 12
        /\ Cardinality(OfKind({"value_counts"})) <= 5
        /\ Cardinality(OfKind({"missing"})) <= 1
        /\ Reported => report = [i \in 1..Len(generated) |-> generated[i].name]

C2_Witness ==
    /\ Reported
    /\ Len(numeric_cols) >= 7
    /\ Len(CatThenNum) >= 6
    /\ Cardinality(OfKind({"heatmap"})) = 1
    /\ Cardinality(OfKind({"dashboard"})) = 1
    /\ Cardinality(OfKind({"scatter"})) = 1
    /\ Cardinality(OfKind({"distribution", "box"})) = 12
    /\ Cardinality(OfKind({"value_counts"})) = 5
    /\ Cardinality(OfKind({"missing"})) = 1
    /\ Len(report) = 21

HasValue(column) == \E r \in 1..RowCount(df) : Col(df, column).values[r] # NA
HasMissing(column) == \E r \in 1..RowCount(df) : Col(df, column).values[r] = NA
\* the column has something to count: a value or a declared category
HasCounts(column) == HasValue(column) \/ Col(df, column).categories # <<>>

Charted(kind, cols) == \E i \in 1..Len(saved) : saved[i].kind = kind /\ saved[i].cols = cols

FirstOf(s, n) == {s[i] : i \in {k \in 1..Len(s) : k <= n}}

\* C3: in a catalogue run a chart whose precondition fails contributes no
\* artifact and raises nothing, and every chart of the catalogue whose
\* precondition holds is generated whatever was skipped before it; without a
\* missing value in any column there is no missing-values artifact.
C3_SkipAndContinue ==
    Plotted =>
        /\ Charted("heatmap", <<>>) <=> Len(numeric_cols) >= 2
        /\ Charted("dashboard", <<>>) <=> Len(numeric_cols) >= 2
        /\ \A i \in OfKind({"scatter"}) :
              saved[i].cols = <<numeric_cols[1], numeric_cols[2]>>
        /\ OfKind({"scatter"}) # {} <=>
              /\ Len(numeric_cols) >= 2
              /\ Cardinality({r \in 1..RowCount(df) :
                     /\ Col(df, numeric_cols[1]).values[r] # NA
                     /\ Col(df, numeric_cols[2]).values[r] # NA}) >= 2
        /\ \A c \in Range(columns(df)) :
              /\ Charted("distribution", <<c>>) <=>
                    c \in FirstOf(numeric_cols, 6) /\ HasValue(c)
              /\ Charted("box", <<c>>) <=> c \in FirstOf(numeric_cols, 6) /\ HasValue(c)
              /\ Charted("value_counts", <<c>>) <=>
                    c \in FirstOf(CatThenNum, 5) /\ HasCounts(c)
        /\ Charted("missing", <<>>) <=> \E c \in Range(columns(df)) : HasMissing(c)
        /\ \A i \in 1..Len(saved) : saved[i].path \in fs

C3_Witness ==
    /\ Plotted
    /\ Len(numeric_cols) >= 2
    /\ OfKind({"scatter"}) = {}
    /\ \E c \in FirstOf(numeric_cols, 6) : ~HasValue(c) /\ ~Charted("distribution", <<c>>)
    /\ \E c \in FirstOf(numeric_cols, 6) : Charted("box", <<c>>)
    /\ OfKind({"value_counts"}) # {}
    /\ Charted("missing", <<>>)

C3_WitnessNoMissing ==
    /\ Plotted
    /\ Len(df) >= 2
    /\ RowCount(df) >= 1
    /\ \A c \in Range(columns(df)) : ~HasMissing(c)
    /\ ~Charted("missing", <<>>)

IsImage(name) == Len(name) >= 4 /\ SubSeq(name, Len(name) - 3, Len(name)) = S_png

ImagesIn(out) == {p.name : p \in {q \in fs : q.parent = out /\ IsImage(q.name)}}

\* C5 as stated: after the run the images the report references are exactly
\* the image files present in the output directory, whatever it held before.
C5_ReportEqualsDirectory ==
    Reported => Range(report) = ImagesIn(OutputDir)

\* C5 amended: after the run every image the report references exists directly
\* in the output directory, and the referenced images are exactly the images
\* this run's catalogue wrote; an image the directory held before and the run
\* did not write is not referenced.
C5_ReportEqualsRunImages ==
    Reported =>
        /\ \A i \in 1..Len(report) : Join(OutputDir, report[i]) \in fs
        /\ Range(report) = {saved[i].path.name : i \in 1..Len(saved)}
        /\ \A i \in 1..Len(saved) : saved[i].path.parent = OutputDir
        /\ \A name \in ImagesIn(OutputDir) :
              name \in Range(report) \/ name \notin {saved[i].path.name : i \in 1..Len(saved)}

C5_Witness ==
    /\ Reported
    /\ OldPng \in fs
    /\ Len(report) >= 3
    /\ OldPng.name \notin Range(report)

\* C6 as stated: the charts of one catalogue run are written to pairwise
\* distinct paths.
C6_DistinctPaths ==
    Plotted => \A i, j \in 1..Len(saved) : i # j => saved[i].path # saved[j].path

Kept(c) == isalnum(c) \/ c \in {".", "_", "-"}

\* two names that differ only where both hold '_' or a replaced character
SanitizeAlike(a, b) ==
    /\ Len(a) = Len(b)
    /\ \A k \in 1..Len(a) :
          \/ a[k] = b[k]
          \/ /\ (~Kept(a[k]) \/ a[k] = "_")
             /\ (~Kept(b[k]) \/ b[k] = "_")

\* C6 amended: two charts of one catalogue run are written to the same path
\* only if they are of the same kind and their source columns differ only in
\* characters that sanitizing maps to '_'; charts of different kinds, and charts
\* of columns whose sanitized names differ, have distinct paths.
C6_DistinctUnlessSanitizedAlike ==
    Plotted =>
        \A i, j \in 1..Len(saved) :
            i # j /\ saved[i].path = saved[j].path =>
               /\ saved[i].kind = saved[j].kind
               /\ Len(saved[i].cols) = 1
               /\ Len(saved[j].cols) = 1
               /\ saved[i].cols[1] # saved[j].cols[1]
               /\ SanitizeAlike(saved[i].cols[1], saved[j].cols[1])

C6_Witness ==
    /\ Plotted
    /\ Len(saved) >= 6
    /\ \E c \in Range(columns(df)) : \E k \in 1..Len(c) : ~Kept(c[k])
    /\ \A i, j \in 1..Len(saved) : i # j => saved[i].path # saved[j].path

----------------------------------------------------------------------------
(* Specification SpecReport: generate_html_report called with any list of   *)
(* artifact references on any disk.                                        *)

Ref_a == Join(OutputDir, <<"a",".","p","n","g">>)
Ref_b == Join(OutputDir, <<"b",".","p","n","g">>)
Ref_c == Join(OutputDir, <<"c",".","p","n","g">>)
Ref_sub_a == Join(OutputDir \o <<"sub">>, <<"a",".","p","n","g">>)
Ref_else_a == Join(<<"elsewhere">>, <<"a",".","p","n","g">>)
Ref_rapor == Join(OutputDir, S_rapor_html)
ReportPaths == {Ref_a, Ref_b, Ref_c, Ref_sub_a, Ref_else_a, Ref_rapor}

InitReport ==
    /\ df = <<>>
    /\ HAS_PLOT = TRUE
    /\ no_plots = FALSE
    /\ fs \in SUBSET ReportPaths
    /\ Idle
    /\ Plain
    /\ pc = "idle"

\* generate_html_report(output_path, plot_files)
HtmlReport ==
    /\ pc = "idle"
    /\ \E plot_files \in SeqsUpTo(ReportPaths, MaxRefs) :
          /\ report' = rel_paths(fs, OutputDir, plot_files)
          /\ call' = [op |-> "generate_html_report", plot_files |-> plot_files,
                      ret |-> <<Join(OutputDir, S_rapor_html)>>]
    /\ ai_section' = ai_block(ai_insight_text)
    /\ fs' = fs \cup {Join(OutputDir, S_rapor_html)}
    /\ pc' = "returned"
    /\ UNCHANGED <<df, numeric_cols, categorical_cols, HAS_PLOT, no_plots,
                   generated, saved>>
    /\ UNCHANGED <<envvars, ai_insight_text, prompt, printed>>

NextReport == HtmlReport

SpecReport == InitReport /\ [][NextReport]_vars

\* the references that survive: on disk when the report is assembled, and
\* directly inside the output directory
Surviving(disk, plot_files) ==
    {i \in 1..Len(plot_files) :
        plot_files[i] \in disk /\ plot_files[i].parent = OutputDir}

\* C1: generate_html_report emits exactly one image entry for each reference
\* that exists on disk at assembly time and has the output directory as its
\* direct parent, in the order of the given list; every other reference is
\* dropped and nothing is raised; two existing images and one reference to a
\* file that does not exist give exactly two entries.
C1_ReportEntries ==
    [][pc = "idle" /\ pc' = "returned" =>
         LET plot_files == call'.plot_files
             K == Surviving(fs, plot_files)
         IN  /\ call'.ret = <<Join(OutputDir, S_rapor_html)>>
             /\ Len(report') = Cardinality(K)
             /\ \A i \in K :
                   report'[Cardinality({j \in K : j <= i})] = plot_files[i].name
             /\ (fs = {Ref_a, Ref_b} /\ plot_files = <<Ref_a, Ref_b, Ref_c>>)
                   => Len(report') = 2]_vars

C1_Witness ==
    /\ pc = "returned"
    /\ call.op = "generate_html_report"
    /\ call.plot_files = <<Ref_a, Ref_b, Ref_c>>
    /\ fs = {Ref_a, Ref_b, Ref_rapor}
    /\ report = <<Ref_a.name, Ref_b.name>>

----------------------------------------------------------------------------
(* Specification SpecCharts: one call of one chart function.               *)

MaxChartCols == 2
ChartDtypes == {"int64", "float64", "bool", "object", "category"}

ChartDataset(d) == DatasetOf(d, ClashNames, MaxChartCols, ChartDtypes, NoneOrFull(MaxRows))

\* a name no dataset has
AbsentName == <<"z","z">>

ColumnArgs == Range(columns(df)) \cup {AbsentName}

\* top_n arguments: none, one, the default
TopNArgs == {0, 1, CatalogueTopN}

InitCharts ==
    /\ ChartDataset(df)
    /\ HAS_PLOT \in BOOLEAN
    /\ no_plots = FALSE
    /\ fs = {}
    /\ Idle
    /\ Plain
    /\ pc = "idle"

\* the effect of one chart call: the file it saved, the path it returned
ChartCall(op, args, renders) ==
    /\ pc = "idle"
    /\ call' = [op |-> op, args |-> args, ret |-> Paths(renders)]
    /\ saved' = renders
    /\ fs' = fs \cup Range(Paths(renders))
    /\ pc' = "returned"
    /\ UNCHANGED <<df, numeric_cols, categorical_cols, HAS_PLOT, no_plots,
                   generated, report>>
    /\ UNCHANGED <<envvars, aivars>>

PlotCorrelationHeatmap ==
    ChartCall("plot_correlation_heatmap", <<>>, plot_correlation_heatmap(df, OutputDir))

PlotDistribution ==
    \E column \in ColumnArgs :
        ChartCall("plot_distribution", <<column>>, plot_distribution(df, column, OutputDir))

PlotValueCounts ==
    \E column \in ColumnArgs, top_n \in TopNArgs :
        ChartCall("plot_value_counts", <<column, top_n>>,
                  plot_value_counts(df, column, top_n, OutputDir))

PlotScatter ==
    \E col_x \in ColumnArgs, col_y \in ColumnArgs :
        ChartCall("plot_scatter", <<col_x, col_y>>, plot_scatter(df, col_x, col_y, OutputDir))

PlotBox ==
    \E column \in ColumnArgs :
        ChartCall("plot_box", <<column>>, plot_box(df, column, OutputDir))

PlotMissingValues ==
    ChartCall("plot_missing_values", <<>>, plot_missing_values(df, OutputDir))

PlotDashboard ==
    ChartCall("plot_dashboard", <<>>,
              plot_dashboard(df, select_dtypes(df, NumberDtypes), OutputDir))

NextCharts ==
    \/ PlotCorrelationHeatmap
    \/ PlotDistribution
    \/ PlotValueCounts
    \/ PlotScatter
    \/ PlotBox
    \/ PlotMissingValues
    \/ PlotDashboard

SpecCharts == InitCharts /\ [][NextCharts]_vars

Exists(column) == column \in Range(columns(df))
NumericColumn(column) == Exists(column) /\ Col(df, column).dtype \in {"int64", "float64"}
Produced == call.ret # None /\ call.ret[1] \in fs

\* what C4 says of every chart but the value-counts bar
C4_OtherCharts ==
    /\ call.op \in {"plot_distribution", "plot_box"}
          /\ NumericColumn(call.args[1]) /\ HasValue(call.args[1])
          => Produced
    /\ call.op = "plot_scatter"
          /\ NumericColumn(call.args[1]) /\ NumericColumn(call.args[2])
          /\ Cardinality({r \in 1..RowCount(df) :
                 /\ Col(df, call.args[1]).values[r] # NA
                 /\ Col(df, call.args[2]).values[r] # NA}) >= 2
          => Produced
    /\ call.op = "plot_missing_values"
          /\ (\E c \in Range(columns(df)) : HasMissing(c))
          => Produced

\* C4 as stated: with the plotting library available every single-chart
\* operation produces an artifact whenever its listed precondition holds, the
\* value-counts bar (default top 15) for any column that exists in the dataset.
C4_ArtifactWhenPrecondition ==
    pc = "returned" /\ HAS_PLOT =>
        /\ C4_OtherCharts
        /\ call.op = "plot_value_counts"
              /\ Exists(call.args[1]) /\ call.args[2] = CatalogueTopN
              => Produced

\* C4 amended: as stated, except that the value-counts bar is produced for a
\* column that exists, has at least one non-missing value (or, for a column of
\* dtype category, a declared category) and is asked for with top_n >= 1; for
\* an existing column with no value and no declared category it is skipped.
C4_ArtifactWhenValues ==
    pc = "returned" /\ HAS_PLOT =>
        /\ C4_OtherCharts
        /\ call.op = "plot_value_counts"
              /\ Exists(call.args[1]) /\ HasCounts(call.args[1]) /\ call.args[2] >= 1
              => Produced
        /\ call.op = "plot_value_counts"
              /\ Exists(call.args[1]) /\ ~HasCounts(call.args[1])
              => call.ret = None

C4_Witness ==
    /\ pc = "returned"
    /\ HAS_PLOT
    /\ call.op = "plot_value_counts"
    /\ Exists(call.args[1])
    /\ HasMissing(call.args[1])
    /\ HasValue(call.args[1])
    /\ call.args[2] = CatalogueTopN
    /\ Produced

----------------------------------------------------------------------------
(* Specification SpecAnalyzer: a DataAnalyzer is constructed on a dataset   *)
(* and queried, any number of times and in any order.                      *)

MaxAnalyzerCols == 2

AnalyzerDataset(d) ==
    \/ ValueDataset(d)
    \/ DatasetOf(d, PlainNames, MaxAnalyzerCols, AllDtypes, NoneOrFull(MaxRows))

InitAnalyzer ==
    /\ AnalyzerDataset(df)
    /\ HAS_PLOT = TRUE
    /\ no_plots = FALSE
    /\ fs = {}
    /\ Idle
    /\ Plain
    /\ pc = "loaded"

Query(op, args, result) ==
    /\ pc = "analyzed"
    /\ call' = [op |-> op, args |-> args, raised |-> "", ret |-> result]
    /\ UNCHANGED <<df, numeric_cols, categorical_cols, HAS_PLOT, no_plots, fs,
                   generated, saved, report, pc>>
    /\ UNCHANGED <<envvars, aivars>>

DescribeNumeric == Query("describe_numeric", <<>>, describe_numeric)

DescribeCategorical == Query("describe_categorical", <<>>, describe_categorical)

CorrelationMatrix == Query("correlation_matrix", <<>>, correlation_matrix)

ValueCountsSummary ==
    /\ pc = "analyzed"
    /\ \E column \in ColumnArgs, top_n \in 0..MaxTopN :
          LET r == value_counts_summary(column, top_n)
          IN  call' = [op |-> "value_counts_summary", args |-> <<column, top_n>>,
                       raised |-> r.raised,
                       ret |-> IF r.raised = "" THEN r.ret ELSE <<>>]
    /\ UNCHANGED <<df, numeric_cols, categorical_cols, HAS_PLOT, no_plots, fs,
                   generated, saved, report, pc>>
    /\ UNCHANGED <<envvars, aivars>>

NextAnalyzer ==
    \/ DataAnalyzer
    \/ DescribeNumeric
    \/ DescribeCategorical
    \/ CorrelationMatrix
    \/ ValueCountsSummary

SpecAnalyzer == InitAnalyzer /\ [][NextAnalyzer]_vars

\* C8 as stated: after construction the numeric and categorical lists are
\* disjoint and every column of the dataset, whatever its storage type, is in
\* exactly one of them, a non-numeric column in the categorical list.
C8_ColumnsPartitioned ==
    pc = "analyzed" =>
        /\ Range(numeric_cols) \cap Range(categorical_cols) = {}
        /\ \A i \in 1..Len(df) :
              /\ df[i].name \in Range(numeric_cols) \cup Range(categorical_cols)
              /\ df[i].dtype \notin {"int64", "float64"} => df[i].name \in Range(categorical_cols)

\* C9: correlation_matrix() is the empty marker with fewer than 2 numeric
\* columns and otherwise a square matrix indexed both ways by the numeric
\* column names; describe_numeric() is the empty table with no numeric column;
\* describe_categorical() is empty with no categorical column and otherwise
\* has exactly one row per categorical column.
C9_EmptyMarkersAndShapes ==
    LET numeric == {i \in 1..Len(df) : df[i].dtype \in {"int64", "float64"}}
        categorical == {i \in 1..Len(df) : df[i].dtype \in {"object", "category"}}
    IN  /\ call.op = "correlation_matrix" =>
              IF Cardinality(numeric) < 2
              THEN call.ret = EmptyFrame
              ELSE /\ Range(call.ret.index) = {df[i].name : i \in numeric}
                   /\ call.ret.columns = call.ret.index
                   /\ Len(call.ret.index) = Cardinality(numeric)
                   /\ Len(call.ret.data) = Cardinality(numeric)
                   /\ \A i \in 1..Len(call.ret.data) :
                         Len(call.ret.data[i]) = Cardinality(numeric)
        /\ call.op = "describe_numeric" /\ numeric = {} => call.ret = EmptyFrame
        /\ call.op = "describe_categorical" =>
              IF categorical = {}
              THEN call.ret = EmptyFrame
              ELSE /\ Len(call.ret.data) = Cardinality(categorical)
                   /\ {call.ret.data[i].sutun : i \in 1..Len(call.ret.data)}
                         = {df[i].name : i \in categorical}

C9_Witness ==
    /\ call.op = "correlation_matrix"
    /\ Len(numeric_cols) = 2
    /\ Len(df) = 2
    /\ Len(call.ret.index) = 2

C9_WitnessEmpty ==
    /\ call.op = "describe_categorical"
    /\ Len(df) >= 1
    /\ call.ret = EmptyFrame

TrueCount(values, v) == Cardinality({r \in 1..Len(values) : values[r] = <<v>>})
Distinct(values) == {values[r][1] : r \in {q \in 1..Len(values) : values[q] # NA}}
Min(a, b) == IF a < b THEN a ELSE b

C10_Witness ==
    /\ call.op = "value_counts_summary"
    /\ call.raised = ""
    /\ Col(df, call.args[1]).dtype = "object"
    /\ Col(df, call.args[1]).values = <<<<1>>, <<2>>, <<2>>>>
    /\ call.args[2] = 1
    /\ call.ret = <<[value |-> 2, count |-> 2]>>

C11_ColumnNotFound ==
    [][pc = "analyzed" /\ call'.op = "value_counts_summary" =>
          /\ call'.raised = "ValueError" <=> call'.args[1] \notin Range(columns(df))
          /\ call'.raised \in {"", "ValueError"}
          /\ call'.raised = "ValueError" =>
                /\ call'.ret = <<>>
                /\ df' = df
                /\ numeric_cols' = numeric_cols
                /\ categorical_cols' = categorical_cols
                /\ describe_numeric' = describe_numeric
                /\ correlation_matrix' = correlation_matrix
                /\ \A i \in 1..Len(df) : value_counts(df'[i]) = value_counts(df[i])]_vars

C11_Witness ==
    /\ call.op = "value_counts_summary"
    /\ call.raised = "ValueError"
    /\ call.args[1] = AbsentName
    /\ Len(df) = 2
    /\ Len(numeric_cols) = 1
    /\ Len(categorical_cols) = 1

----------------------------------------------------------------------------
(* Specification SpecSafe: _safe_filename applied to a name, and again to  *)
(* its own result.                                                         *)

InitSafe ==
    /\ df = <<>>
    /\ HAS_PLOT = TRUE
    /\ no_plots = FALSE
    /\ fs = {}
    /\ Idle
    /\ Plain
    /\ pc = "idle"

SafeFilename ==
    /\ pc = "idle"
    /\ \E name \in NameInputs :
          call' = [op |-> "safe_filename", arg |-> name, ret |-> safe_filename(name),
                   again |-> FALSE]
    /\ pc' = "returned"
    /\ UNCHANGED <<df, numeric_cols, categorical_cols, HAS_PLOT, no_plots, fs,
                   generated, saved, report>>
    /\ UNCHANGED <<envvars, aivars>>

SafeFilenameAgain ==
    /\ pc = "returned"
    /\ call.op = "safe_filename"
    /\ ~call.again
    /\ call' = [op |-> "safe_filename", arg |-> call.ret,
                ret |-> safe_filename(call.ret), again |-> TRUE]
    /\ UNCHANGED <<df, numeric_cols, categorical_cols, HAS_PLOT, no_plots, fs,
                   generated, saved, report, pc>>
    /\ UNCHANGED <<envvars, aivars>>

NextSafe == SafeFilename \/ SafeFilenameAgain

SpecSafe == InitSafe /\ [][NextSafe]_vars

\* C7: _safe_filename keeps every alphanumeric character and every '.', '_', '-',
\* replaces every other character by exactly one '_' (so the length is
\* unchanged and only kept characters remain), a second application changes
\* nothing, and "Sales (USD)!" becomes "Sales__USD__".
C7_SafeFilenameCharwise ==
    call.op = "safe_filename" =>
        /\ Len(call.ret) = Len(call.arg)
        /\ \A i \in 1..Len(call.arg) :
              /\ Kept(call.arg[i]) => call.ret[i] = call.arg[i]
              /\ ~Kept(call.arg[i]) => call.ret[i] = "_"
        /\ \A i \in 1..Len(call.ret) : Kept(call.ret[i])
        /\ call.again => call.ret = call.arg
        /\ call.arg = SalesUSD => call.ret = Sales__USD__

C7_Witness ==
    /\ call.op = "safe_filename"
    /\ call.arg = SalesUSD
    /\ call.ret = Sales__USD__

----------------------------------------------------------------------------
(* Specification SpecRun: main.run_analysis with the narrative step and    *)
(* with a render that may raise.                                           *)

MaxRunCols == 2
MaxFault == 3

RunDataset(d) ==
    DatasetOf(d, PlainNames, MaxRunCols, RunDtypes, {<<>>, <<"full", "odd">>})

ApiKeys == {<<>>, <<" ">>, <<"s", "k">>}

Contents == {None, <<<<>>>>, <<<<" ">>>>, <<<<"o", "k">>>>,
             <<<<" ", "o", "\n", "k", "\n">>>>}

Provider(library, api_key, client, request, choices, content) ==
    [library |-> library, api_key |-> api_key, client |-> client,
     request |-> request, choices |-> choices, content |-> content]

Answering(content) == Provider("present", <<"s", "k">>, "ok", "ok", 1, content)

Providers ==
    {Provider("missing", k, "ok", "ok", 1, <<<<"o", "k">>>>) : k \in ApiKeys}
    \cup {Provider("present", k, "ok", "ok", 1, <<<<"o", "k">>>>) : k \in ApiKeys}
    \cup {Provider("present", <<"s", "k">>, "raises", "ok", 1, <<<<"o", "k">>>>),
          Provider("present", <<"s", "k">>, "ok", "raises", 1, <<<<"o", "k">>>>),
          Provider("present", <<"s", "k">>, "ok", "ok", 0, None)}
    \cup {Answering(c) : c \in Contents}

\* a report and an image left in the output directory by an earlier run
StaleReport == {Join(OutputDir, S_rapor_html), OldPng}

InitRun ==
    /\ RunDataset(df)
    /\ fs \in {{}, StaleReport}
    /\ \/ /\ use_ai = TRUE
          /\ HAS_AI = TRUE
          /\ provider \in Providers
          /\ fault = 0
          /\ \E flags \in {<<TRUE, FALSE>>, <<TRUE, TRUE>>, <<FALSE, FALSE>>} :
                /\ HAS_PLOT = flags[1]
                /\ no_plots = flags[2]
       \/ /\ \E flags \in {<<TRUE, FALSE>>, <<FALSE, TRUE>>, <<TRUE, TRUE>>} :
                /\ use_ai = flags[1]
                /\ HAS_AI = flags[2]
          /\ provider \in {Answering(<<<<"o", "k">>>>),
                           Provider("present", <<"s", "k">>, "raises", "ok", 1, None)}
          /\ fault \in 0..MaxFault
          /\ HAS_PLOT = TRUE
          /\ no_plots = FALSE
    /\ Idle
    /\ pc = "loaded"

AiAtlandi == "AI ozet atlandi"
AiYanitYok == "(OPENAI_API_KEY tanimli degil veya API yanit vermedi)"

\* run_analysis, lines 86-99: the narrative step.  The texts handed to
\* generate_insights are represented by the tables they print.
AiInsights ==
    /\ pc = "analyzed"
    /\ use_ai /\ HAS_AI
    /\ LET desc_text == IF describe_numeric = EmptyFrame THEN "" ELSE describe_numeric
           corr_text == IF Len(numeric_cols) >= 2 THEN correlation_matrix ELSE ""
           r == generate_insights(summary, desc_text, corr_text)
       IN  /\ call' = [op |-> "generate_insights", raised |-> r.raised, ret |-> r.ret]
           /\ prompt' = r.prompt
           /\ ai_insight_text' = IF r.raised = "" THEN r.ret ELSE ai_insight_text
           /\ printed' = IF r.raised # "" THEN Append(printed, AiAtlandi)
                         ELSE IF r.ret # None /\ r.ret[1] # <<>> THEN printed
                         ELSE Append(printed, AiYanitYok)
    /\ pc' = "narrated"
    /\ UNCHANGED <<df, numeric_cols, categorical_cols, HAS_PLOT, no_plots, fs,
                   generated, saved, report, envvars, ai_section>>

NextRun ==
    \/ DataAnalyzer
    \/ AiInsights
    \/ GenerateAllPlots
    \/ GenerateHtmlReport
    \/ SkipPlots
    \/ WriteSample

SpecRun == InitRun /\ [][NextRun]_vars

\* the narrative provider fails in this run: the library is not installed,
\* the credentials are missing, the client cannot be constructed, the request
\* fails, or the response is malformed (no choice) or empty (no content)
ProviderFails ==
    \/ provider.library = "missing"
    \/ strip(provider.api_key) = <<>>
    \/ provider.client = "raises"
    \/ provider.request = "raises"
    \/ provider.choices = 0
    \/ provider.content = None
    \/ provider.content = <<<<>>>>

\* C12 as stated: whatever way the narrative provider fails, generate_insights
\* returns None and does not raise, and run_analysis goes on to generate the
\* charts and the report, which has no narrative section.
C12_ProviderFailureAbsent ==
    use_ai /\ HAS_AI /\ ProviderFails =>
        /\ call.op = "generate_insights" => call.raised = "" /\ call.ret = None
        /\ pc = "done" /\ HAS_PLOT /\ ~no_plots /\ fault = 0 =>
              /\ saved = all_plots(df, numeric_cols, categorical_cols, OutputDir)
              /\ report # NoReport
              /\ Join(OutputDir, S_rapor_html) \in fs
              /\ ai_section = None

\* C13 as stated: when a render raises partway through the catalogue, the
\* charts after it are not generated, the run still comes to its end with the
\* data sample written and nothing raised to its caller, and its output holds
\* the charts rendered before the failure together with an HTML report that
\* lists them.  (Stated for a failure after at least one chart.)
C13_PartialChartsReported ==
    LET renders == all_plots(df, numeric_cols, categorical_cols, OutputDir)
    IN  pc = "done" /\ HAS_PLOT /\ ~no_plots /\ fault \in 2..Len(renders) =>
            /\ saved = SubSeq(renders, 1, fault - 1)
            /\ Join(OutputDir, S_veri_ornegi_csv) \in fs
            /\ Range(Paths(saved)) \subseteq fs
            /\ report # NoReport
            /\ report = [i \in 1..Len(saved) |-> saved[i].path.name]

\* C14 as stated: every summary field generate_insights reads is a key of the
\* dict DataAnalyzer.summary() returns, so the prompt carries the dataset's
\* row count, column count, column lists and missing-value counts, not the
\* '?' and empty defaults.
C14_PromptCarriesSummary ==
    prompt # None =>
        /\ {"row_count", "column_count", "numeric_columns", "categorical_columns",
            "missing_values"} \subseteq DOMAIN summary
        /\ prompt[1].row_count = RowCount(df)
        /\ prompt[1].column_count = Len(df)
        /\ prompt[1].numeric_columns = numeric_cols
        /\ prompt[1].categorical_columns = categorical_cols
        /\ prompt[1].missing_values =
               [c \in Range(columns(df)) |-> isnull_sum(Col(df, c).values)]

====
